---- MODULE Spec2Model ----
(***************************************************************************)
(* The multi-entry widget asset build pipeline of                          *)
(* web/scripts/build-widget-assets.js: discovery of the entry targets      *)
(* under the source root, the sequential build loop and the manifest.      *)
(* The script is run several times in a row against a disk that persists   *)
(* between the runs.                                                       *)
(***************************************************************************)
EXTENDS Naturals, Sequences, FiniteSets, TLC

\* How many times the script is run in a row.
MaxRuns == 2

-----------------------------------------------------------------------------
(* Paths and text.  File names, paths and source text are strings.         *)

\* path.sep of the platform the script runs on
VARIABLE sep

Platforms == {"/", "\\"}

OUT_DIR == "dist" \o sep \o "widgets"

MANIFEST_PATH == OUT_DIR \o sep \o "manifest.json"

\* the candidates with the typed extensions ahead of the untyped ones
ENTRY_FILES_TypedFirst ==
  << "index.tsx", "index.ts", "index.jsx", "index.js",
     "main.tsx", "main.ts", "main.jsx", "main.js" >>

ENTRY_FILES ==
  << "index.tsx", "index.jsx", "index.ts", "index.js",
     "main.tsx", "main.jsx", "main.ts", "main.js" >>

\* s.startsWith(p)
startsWith(s, p) == Len(s) >= Len(p) /\ SubSeq(s, 1, Len(p)) = p

charAt(s, i) == SubSeq(s, i, i)

\* s.lastIndexOf(c) among the first i characters, 0 when there is none
RECURSIVE lastIndexOf(_, _, _)
lastIndexOf(s, c, i) ==
  IF i < 1 THEN 0
  ELSE IF charAt(s, i) = c THEN i
  ELSE lastIndexOf(s, c, i - 1)

\* path.dirname(p) of a path with at least one separator
pathDirname(p) == SubSeq(p, 1, lastIndexOf(p, sep, Len(p)) - 1)

\* path.join(a, b) of two normalised paths
pathJoin(a, b) == a \o sep \o b

\* path.relative(from, to) for normalised paths below a common directory
RECURSIVE pathRelative(_, _)
pathRelative(from, to) ==
  IF to = from THEN ""
  ELSE IF startsWith(to, from \o sep) THEN SubSeq(to, Len(from) + 2, Len(to))
  ELSE IF lastIndexOf(from, sep, Len(from)) = 0 THEN to
  ELSE LET up == pathRelative(pathDirname(from), to)
       IN  IF up = "" THEN ".." ELSE ".." \o sep \o up

\* value.split(path.sep).join('/')
RECURSIVE toPosixPath(_)
toPosixPath(value) ==
  IF Len(value) = 0 THEN ""
  ELSE (IF SubSeq(value, 1, 1) = sep THEN "/" ELSE SubSeq(value, 1, 1))
         \o toPosixPath(SubSeq(value, 2, Len(value)))

isSpace(c) == c \in {" ", "\t", "\n", "\r"}

isQuote(c) == c \in {"'", "\""}

\* the position after the run of characters satisfying the class, from i on
RECURSIVE skipSpaces(_, _)
skipSpaces(s, i) ==
  IF i <= Len(s) /\ isSpace(charAt(s, i)) THEN skipSpaces(s, i + 1) ELSE i

RECURSIVE skipNonQuotes(_, _)
skipNonQuotes(s, i) ==
  IF i <= Len(s) /\ ~isQuote(charAt(s, i)) THEN skipNonQuotes(s, i + 1) ELSE i

\* /getElementById\s*\(\s*['"]([^'"]+)['"]\s*\)/ tried at position i:
\* the captured group, or "" when the pattern does not match there
matchRootIdAt(s, i) ==
  LET kw == "getElementById"
      a  == skipSpaces(s, i + Len(kw))
      b  == skipSpaces(s, a + 1)
      c  == skipNonQuotes(s, b + 1)
      d  == skipSpaces(s, c + 1)
  IN  IF /\ i + Len(kw) - 1 <= Len(s)
         /\ SubSeq(s, i, i + Len(kw) - 1) = kw
         /\ a <= Len(s) /\ charAt(s, a) = "("
         /\ b <= Len(s) /\ isQuote(charAt(s, b))
         /\ c > b + 1
         /\ c <= Len(s) /\ isQuote(charAt(s, c))
         /\ d <= Len(s) /\ charAt(s, d) = ")"
      THEN SubSeq(s, b + 1, c - 1)
      ELSE ""

\* the positions from i on where the pattern matches
rootIdMatches(s, i) == { k \in i..Len(s) : matchRootIdAt(s, k) # "" }

\* String.prototype.match without the g flag: the leftmost match
firstRootIdMatch(s, i) ==
  LET hits == rootIdMatches(s, i)
  IN  IF hits = {} THEN ""
      ELSE matchRootIdAt(s, CHOOSE k \in hits : \A m \in hits : k <= m)

lastRootIdMatch(s, i) ==
  LET hits == rootIdMatches(s, i)
  IN  IF hits = {} THEN ""
      ELSE matchRootIdAt(s, CHOOSE k \in hits : \A m \in hits : k >= m)

\* the match furthest into the source is used
detectRootIdLastMatch(entrySource, fallbackName) ==
  LET match == lastRootIdMatch(entrySource, 1)
  IN  IF match # "" THEN match ELSE fallbackName \o "-root"

detectRootId(entrySource, fallbackName) ==
  LET match == firstRootIdMatch(entrySource, 1)
  IN  IF match # "" THEN match ELSE fallbackName \o "-root"

-----------------------------------------------------------------------------
(* The source tree: the entries of the source root in readdir order.  A    *)
(* directory entry carries its files, a function from file name to text.   *)

NoFiles == [f \in {} |-> ""]

SrcWithRootId == "createRoot(document.getElementById('app')!)"

SrcSpaced == "getElementById ( \"m\" )"

SrcPlain == "export default 1"

Dir(n, fs) == [name |-> n, isDir |-> TRUE, files |-> fs]

PlainFile(n) == [name |-> n, isDir |-> FALSE, files |-> NoFiles]

\* what each slot of the source root may hold in a run; <<>> is nothing
SlotA ==
  { <<>>,
    << Dir("a", ("main.js" :> SrcPlain) @@ ("index.tsx" :> SrcWithRootId)
                  @@ ("index.css" :> "")) >>,
    << Dir("a", ("style.css" :> "")) >> }

SlotB == { <<>>, << Dir("b", ("main.ts" :> SrcPlain)) >> }

SlotC == { <<>>, << Dir("c", ("index.jsx" :> SrcSpaced)) >> }

SlotHidden == { <<>>, << Dir(".h", ("index.js" :> SrcPlain)) >> }

SlotFile == { <<>>, << PlainFile("index.tsx") >> }

Trees ==
  { a \o h \o b \o f \o c :
      a \in SlotA, h \in SlotHidden, b \in SlotB, f \in SlotFile, c \in SlotC }

existsIn(dirent, file) == file \in DOMAIN dirent.files

RECURSIVE resolveFrom(_, _)
resolveFrom(dirent, i) ==
  IF i > Len(ENTRY_FILES) THEN ""
  ELSE IF existsIn(dirent, ENTRY_FILES[i]) THEN ENTRY_FILES[i]
  ELSE resolveFrom(dirent, i + 1)

RECURSIVE resolveBackFrom(_, _)
resolveBackFrom(dirent, i) ==
  IF i < 1 THEN ""
  ELSE IF existsIn(dirent, ENTRY_FILES[i]) THEN ENTRY_FILES[i]
  ELSE resolveBackFrom(dirent, i - 1)

\* the loop keeps going after a match, so that the last candidate wins
resolveEntryFileLast(dirent) == resolveBackFrom(dirent, Len(ENTRY_FILES))

\* the entry file name chosen in the directory, "" for null
resolveEntryFile(dirent) == resolveFrom(dirent, 1)

entryTarget(dirent) ==
  LET entryFile   == resolveEntryFile(dirent)
      entrySource == dirent.files[entryFile]
  IN  [ name        |-> dirent.name,
        entryFile   |-> "src" \o sep \o dirent.name \o sep \o entryFile,
        entrySource |-> entrySource,
        rootId      |-> detectRootId(entrySource, dirent.name) ]

RECURSIVE discoverFrom(_, _)
discoverFrom(dirEntries, i) ==
  IF i > Len(dirEntries) THEN <<>>
  ELSE LET dirent == dirEntries[i]
       IN  IF ~dirent.isDir THEN discoverFrom(dirEntries, i + 1)
           ELSE IF startsWith(dirent.name, ".") THEN discoverFrom(dirEntries, i + 1)
           ELSE IF resolveEntryFile(dirent) = "" THEN discoverFrom(dirEntries, i + 1)
           ELSE <<entryTarget(dirent)>> \o discoverFrom(dirEntries, i + 1)

RECURSIVE discoverWithHiddenFrom(_, _)
discoverWithHiddenFrom(dirEntries, i) ==
  IF i > Len(dirEntries) THEN <<>>
  ELSE LET dirent == dirEntries[i]
       IN  IF ~dirent.isDir THEN discoverWithHiddenFrom(dirEntries, i + 1)
           ELSE IF resolveEntryFile(dirent) = "" THEN discoverWithHiddenFrom(dirEntries, i + 1)
           ELSE <<entryTarget(dirent)>> \o discoverWithHiddenFrom(dirEntries, i + 1)

discoverEntriesNoHiddenCheck(dirEntries) == discoverWithHiddenFrom(dirEntries, 1)

discoverEntries(dirEntries) == discoverFrom(dirEntries, 1)

-----------------------------------------------------------------------------
(* Style sheet selection.  Here the file system is a tree of nodes: a      *)
(* directory node carries its entries in readdir order, a file its text.   *)

SRC_ROOT == "src"

CSS_EXTENSIONS == { ".css", ".pcss", ".scss", ".sass" }

GLOBAL_CSS_CANDIDATES ==
  << "index.css", "global.css", pathJoin("styles", "index.css") >>

FileNode(n, t) == [name |-> n, isDir |-> FALSE, kids |-> <<>>, text |-> t]

DirNode(n, ks) == [name |-> n, isDir |-> TRUE, kids |-> ks, text |-> ""]

\* what a lookup of a missing path gives
NoNode == [name |-> "", isDir |-> FALSE, kids |-> <<>>, text |-> ""]

\* the position of the first separator of p from i on, Len(p) + 1 if none
RECURSIVE nextSep(_, _)
nextSep(p, i) ==
  IF i > Len(p) \/ charAt(p, i) = sep THEN i ELSE nextSep(p, i + 1)

\* the node that the path p names below the directory node dir
RECURSIVE nodeBelow(_, _)
nodeBelow(dir, p) ==
  LET j    == nextSep(p, 1)
      head == SubSeq(p, 1, j - 1)
      hits == { i \in DOMAIN dir.kids : dir.kids[i].name = head }
  IN  IF ~dir.isDir \/ hits = {} THEN NoNode
      ELSE LET kid == dir.kids[CHOOSE i \in hits : TRUE]
           IN  IF j > Len(p) THEN kid ELSE nodeBelow(kid, SubSeq(p, j + 1, Len(p)))

\* the node at path p of the file system whose source root is the node fs
nodeAt(fs, p) ==
  IF p = SRC_ROOT THEN fs
  ELSE IF startsWith(p, SRC_ROOT \o sep)
       THEN nodeBelow(fs, SubSeq(p, Len(SRC_ROOT) + 2, Len(p)))
  ELSE NoNode

\* fs.existsSync(p)
existsSync(fs, p) == nodeAt(fs, p) # NoNode

\* fs.readdirSync(p, { withFileTypes: true })
readdirSync(fs, p) == nodeAt(fs, p).kids

UpperCase == "ABCDEFGHIJKLMNOPQRSTUVWXYZ"

LowerCase == "abcdefghijklmnopqrstuvwxyz"

lowerChar(c) ==
  LET hits == { i \in 1..Len(UpperCase) : charAt(UpperCase, i) = c }
  IN  IF hits = {} THEN c ELSE charAt(LowerCase, CHOOSE i \in hits : TRUE)

\* value.toLowerCase()
RECURSIVE toLowerCase(_)
toLowerCase(value) ==
  IF Len(value) = 0 THEN ""
  ELSE lowerChar(charAt(value, 1)) \o toLowerCase(SubSeq(value, 2, Len(value)))

\* path.extname(name) of a file name: from the last dot on, "" when the
\* only dot is the first character or there is none
extname(name) ==
  LET dot == lastIndexOf(name, ".", Len(name))
  IN  IF dot <= 1 THEN "" ELSE SubSeq(name, dot, Len(name))

\* s.includes(sub)
includes(s, sub) ==
  \E i \in 1..(Len(s) - Len(sub) + 1) : SubSeq(s, i, i + Len(sub) - 1) = sub

\* CSS_MODULE_REGEX.test(name), /\.module\./i
isCssModule(name) == includes(toLowerCase(name), ".module.")

\* the for loop over the entries of the directory current, from entry i on:
\* subdirectories are pushed on the queue, style sheets on the results
RECURSIVE scanEntries(_, _, _, _, _)
scanEntries(current, dirEntries, i, queue, results) ==
  IF i > Len(dirEntries) THEN [queue |-> queue, results |-> results]
  ELSE LET dirent == dirEntries[i]
       IN  IF dirent.isDir
           THEN IF dirent.name = "node_modules" \/ startsWith(dirent.name, ".")
                THEN scanEntries(current, dirEntries, i + 1, queue, results)
                ELSE scanEntries(current, dirEntries, i + 1,
                                 Append(queue, pathJoin(current, dirent.name)), results)
           ELSE IF toLowerCase(extname(dirent.name)) \notin CSS_EXTENSIONS
                THEN scanEntries(current, dirEntries, i + 1, queue, results)
           ELSE IF isCssModule(dirent.name)
                THEN scanEntries(current, dirEntries, i + 1, queue, results)
           ELSE scanEntries(current, dirEntries, i + 1, queue,
                            Append(results, pathJoin(current, dirent.name)))

\* the while loop: the directory pushed last is read next
RECURSIVE collectWhile(_, _, _)
collectWhile(fs, queue, results) ==
  IF Len(queue) = 0 THEN results
  ELSE LET current == queue[Len(queue)]
           after   == scanEntries(current, readdirSync(fs, current), 1,
                                  SubSeq(queue, 1, Len(queue) - 1), results)
       IN  collectWhile(fs, after.queue, after.results)

collectCssFiles(fs, startDir) == collectWhile(fs, << startDir >>, <<>>)

\* the characters of the class /[.*+?^${}()|[\]\\]/
RegexSpecial ==
  { ".", "*", "+", "?", "^", "$", "{", "}", "(", ")", "|", "[", "]", "\\" }

\* value.replace(/[.*+?^${}()|[\]\\]/g, '\\$&')
RECURSIVE escapeForRegex(_)
escapeForRegex(value) ==
  IF Len(value) = 0 THEN ""
  ELSE (IF charAt(value, 1) \in RegexSpecial
        THEN "\\" \o charAt(value, 1) ELSE charAt(value, 1))
         \o escapeForRegex(SubSeq(value, 2, Len(value)))

\* entrySource.replace(/\r\n/g, '\n')
RECURSIVE normalizeNewlines(_)
normalizeNewlines(source) ==
  IF Len(source) = 0 THEN ""
  ELSE IF startsWith(source, "\r\n")
       THEN "\n" \o normalizeNewlines(SubSeq(source, 3, Len(source)))
  ELSE charAt(source, 1) \o normalizeNewlines(SubSeq(source, 2, Len(source)))

\* the pattern text pat, from its position k on, matched against s from
\* position i on: a backslash makes the next character literal, a bare dot
\* matches any character but a line terminator, other characters match
\* themselves.  The position after the match, 0 when there is none.
RECURSIVE matchPattern(_, _, _, _)
matchPattern(pat, k, s, i) ==
  IF k > Len(pat) THEN i
  ELSE IF i > Len(s) THEN 0
  ELSE IF charAt(pat, k) = "\\"
       THEN IF k < Len(pat) /\ charAt(s, i) = charAt(pat, k + 1)
            THEN matchPattern(pat, k + 2, s, i + 1) ELSE 0
  ELSE IF charAt(pat, k) = "."
       THEN IF charAt(s, i) \notin {"\n", "\r"}
            THEN matchPattern(pat, k + 1, s, i + 1) ELSE 0
  ELSE IF charAt(s, i) = charAt(pat, k)
       THEN matchPattern(pat, k + 1, s, i + 1) ELSE 0

\* new RegExp(`import\\s+['"]${pat}['"]`) matched at position i of s
importRegexAt(pat, s, i) ==
  LET kw == "import"
      a  == skipSpaces(s, i + Len(kw))
      b  == IF a <= Len(s) THEN matchPattern(pat, 1, s, a + 1) ELSE 0
  IN  /\ i + Len(kw) - 1 <= Len(s)
      /\ SubSeq(s, i, i + Len(kw) - 1) = kw
      /\ a > i + Len(kw)
      /\ a <= Len(s) /\ isQuote(charAt(s, a))
      /\ b > 0 /\ b <= Len(s) /\ isQuote(charAt(s, b))

\* importRegex.test(s)
importRegexTest(pat, s) == \E i \in 1..Len(s) : importRegexAt(pat, s, i)

\* the relative path as the filter spells it
normalizedRelative(entryDir, cssPath) ==
  LET relative == toPosixPath(pathRelative(entryDir, cssPath))
  IN  IF startsWith(relative, ".") THEN relative ELSE "./" \o relative

filterCssAlreadyImported(cssPaths, entryFile, entrySource) ==
  LET entryDir         == pathDirname(entryFile)
      normalizedSource == normalizeNewlines(entrySource)
      keep(cssPath) ==
        ~importRegexTest(escapeForRegex(normalizedRelative(entryDir, cssPath)),
                         normalizedSource)
  IN  SelectSeq(cssPaths, keep)

\* Array.from(new Set(paths)): the first occurrence of each path is kept
RECURSIVE dedupe(_)
dedupe(paths) ==
  IF Len(paths) = 0 THEN <<>>
  ELSE LET front == dedupe(SubSeq(paths, 1, Len(paths) - 1))
           last  == paths[Len(paths)]
       IN  IF \E i \in DOMAIN front : front[i] = last THEN front
           ELSE Append(front, last)

\* the global candidates that exist, in candidate order
globalCssOf(fs) ==
  LET exists(candidatePath) == existsSync(fs, candidatePath)
  IN  SelectSeq([i \in DOMAIN GLOBAL_CSS_CANDIDATES |->
                   pathJoin(SRC_ROOT, GLOBAL_CSS_CANDIDATES[i])], exists)

perEntryCssOf(fs, target) == collectCssFiles(fs, pathDirname(target.entryFile))

\* the two lists joined without the Set
selectCssNoDedupe(fs, target) ==
  filterCssAlreadyImported(globalCssOf(fs) \o perEntryCssOf(fs, target),
                           target.entryFile, target.entrySource)

selectCss(fs, target) ==
  LET globalCss   == globalCssOf(fs)
      perEntryCss == perEntryCssOf(fs, target)
      deduped     == dedupe(globalCss \o perEntryCss)
  IN  filterCssAlreadyImported(deduped, target.entryFile, target.entrySource)

-----------------------------------------------------------------------------
(* The virtual entry module of a target.                                   *)

Null == "<null>"

\* the prefix of a virtual id; "\\0" stands for the NUL character
VirtualPrefix == "\\0virtual-entry:"

\* const virtualId = `\0virtual-entry:${target.entryFile}`
virtualIdOf(target) == VirtualPrefix \o target.entryFile

\* the characters of a string literal as JSON.stringify writes them:
\* a backslash and a double quote are escaped
RECURSIVE jsonEscape(_)
jsonEscape(value) ==
  IF Len(value) = 0 THEN ""
  ELSE (IF charAt(value, 1) \in {"\\", "\""}
        THEN "\\" \o charAt(value, 1) ELSE charAt(value, 1))
         \o jsonEscape(SubSeq(value, 2, Len(value)))

\* JSON.stringify(value) of a string without control characters
jsonStringify(value) == "\"" \o jsonEscape(value) \o "\""

\* cssPaths.map((cssPath) => `import ${JSON.stringify(cssPath)};`).join('\n')
RECURSIVE cssImportsOf(_)
cssImportsOf(cssPaths) ==
  IF Len(cssPaths) = 0 THEN ""
  ELSE IF Len(cssPaths) = 1 THEN "import " \o jsonStringify(cssPaths[1]) \o ";"
  ELSE "import " \o jsonStringify(cssPaths[1]) \o ";\n"
         \o cssImportsOf(SubSeq(cssPaths, 2, Len(cssPaths)))

\* the hook resolveId(id) of wrapEntryPlugin(virtualId, entryFile, cssPaths)
resolveId(virtualId, id) == IF id = virtualId THEN id ELSE Null

\* the body of the virtual entry module
virtualEntryBody(entryFile, cssPaths) ==
  LET cssImports == cssImportsOf(cssPaths)
      banner     == IF Len(cssImports) > 0 THEN cssImports \o "\n\n" ELSE ""
  IN  banner \o "export * from " \o jsonStringify(entryFile) \o ";\n"
             \o "import " \o jsonStringify(entryFile) \o ";"

\* a module is made up for every id that looks like a virtual id
loadAnyVirtualId(virtualId, entryFile, cssPaths, id) ==
  IF ~startsWith(id, VirtualPrefix) THEN Null
  ELSE virtualEntryBody(entryFile, cssPaths)

\* the hook load(id) of wrapEntryPlugin(virtualId, entryFile, cssPaths)
load(virtualId, entryFile, cssPaths, id) ==
  IF id # virtualId THEN Null
  ELSE virtualEntryBody(entryFile, cssPaths)

-----------------------------------------------------------------------------
(* The output directory and the build.                                     *)

NoEntries == [n \in {} |-> ""]

\* a file of the output directory: the run that wrote it and, for the
\* manifest, the entries object it holds
WrittenFile(r, es) == [by |-> r, entries |-> es]

EmptyDir == [p \in {} |-> WrittenFile(0, NoEntries)]

widgetJsPath(name) == OUT_DIR \o sep \o name \o ".js"

widgetCssPath(name) == OUT_DIR \o sep \o name \o ".css"

\* rollupOptions.output: entryFileNames, assetFileNames
outputPath(name, kind) ==
  CASE kind = "js"    -> OUT_DIR \o sep \o name \o ".js"
    [] kind = "css"   -> OUT_DIR \o sep \o name \o ".css"
    [] kind = "asset" -> OUT_DIR \o sep \o name \o "-h1.svg"

\* what one call of the bundler's build() may do: the files it emits and
\* whether it then throws
BuildOutcomes ==
  { [throws |-> FALSE, emits |-> {"js", "css", "asset"}],
    [throws |-> FALSE, emits |-> {"js"}],
    [throws |-> FALSE, emits |-> {"css"}],
    [throws |-> TRUE,  emits |-> {}],
    [throws |-> TRUE,  emits |-> {"js"}] }

writeFiles(dir, paths, r, es) ==
  [p \in DOMAIN dir \cup paths |-> IF p \in paths THEN WrittenFile(r, es) ELSE dir[p]]

manifestEntryFallbackRootId(target, dir) ==
  [ js     |-> toPosixPath(pathRelative("dist", widgetJsPath(target.name))),
    css    |-> IF widgetCssPath(target.name) \in DOMAIN dir
               THEN toPosixPath(pathRelative("dist", widgetCssPath(target.name)))
               ELSE Null,
    rootId |-> target.name \o "-root" ]

\* the css path is recorded without the existence check
manifestEntryAlwaysCss(target, dir) ==
  [ js     |-> toPosixPath(pathRelative("dist", widgetJsPath(target.name))),
    css    |-> toPosixPath(pathRelative("dist", widgetCssPath(target.name))),
    rootId |-> target.rootId ]

manifestEntry(target, dir) ==
  [ js     |-> toPosixPath(pathRelative("dist", widgetJsPath(target.name))),
    css    |-> IF widgetCssPath(target.name) \in DOMAIN dir
               THEN toPosixPath(pathRelative("dist", widgetCssPath(target.name)))
               ELSE Null,
    rootId |-> target.rootId ]

-----------------------------------------------------------------------------
(* State.                                                                  *)

VARIABLES
  run,            \* how many runs have been started
  srcExists,      \* whether SRC_ROOT exists in this run
  tree,           \* the entries of SRC_ROOT in this run
  outDirExists,   \* whether OUT_DIR exists on disk
  outDir,         \* the files of OUT_DIR on disk: path -> WrittenFile
  pc,             \* where main() stands
  entryTargets,   \* main's entryTargets
  idx,            \* position of the for...of loop in entryTargets
  manifest,       \* main's manifest accumulator
  exitCode,       \* process.exitCode of this run
  inflight,       \* positions whose build() has been called and not settled
  buildCalls,     \* positions for which build() was called in this run, in order
  verified,       \* positions whose JS output passed ensureFileExists
  manifestWrites, \* how many times this run wrote MANIFEST_PATH
  discovered,     \* whether discoverEntries has run in this run
  outDirExists0,  \* outDirExists when this run started
  outDir0,        \* outDir when this run started
  emitted,        \* the outcome of each build() call of this run, in call order
  prevExitCode,   \* process.exitCode of the run before, kept for repeated runs
  bundler,        \* a deterministic bundler: what it does for each input
  args,           \* the arguments of a function called on its own
  result,         \* what that call returned
  returned        \* whether it has returned

vars ==
  << sep, run, srcExists, tree, outDirExists, outDir, pc, entryTargets, idx, manifest,
     exitCode, inflight, buildCalls, verified, manifestWrites, discovered,
     outDirExists0, outDir0, emitted, prevExitCode, bundler, args, result,
     returned >>

disk == << outDirExists, outDir >>

\* what no step of a run changes
fixed == << sep, bundler, args, result, returned >>

inputs == << fixed, prevExitCode, run, srcExists, tree, outDirExists0, outDir0 >>

NoBundler == [config |-> TRUE, build |-> [n \in {} |-> {}]]

\* a disk without OUT_DIR
NoOutDir ==
  /\ outDirExists = FALSE
  /\ outDir = EmptyDir

\* the state of main() before the first run
MainIdle ==
  /\ run = 0
  /\ pc = "idle"
  /\ entryTargets = <<>>
  /\ idx = 1
  /\ manifest = NoEntries
  /\ exitCode = 0
  /\ inflight = {}
  /\ buildCalls = <<>>
  /\ verified = {}
  /\ manifestWrites = 0
  /\ discovered = FALSE
  /\ outDirExists0 = FALSE
  /\ outDir0 = EmptyDir
  /\ emitted = <<>>
  /\ prevExitCode = 0

\* no function is called on its own
NoUnit ==
  /\ args = <<>>
  /\ result = <<>>
  /\ returned = FALSE

Init ==
  /\ sep \in Platforms
  /\ srcExists = TRUE
  /\ tree = <<>>
  /\ MainIdle
  /\ NoOutDir
  /\ bundler = NoBundler
  /\ NoUnit

\* main().catch: the error is logged and the exit code set
Catch ==
  /\ pc' = "done"
  /\ exitCode' = 1

\* the script is started: a fresh process against the disk as it is, with
\* the source root existing or not (e) and holding the tree t
StartRunWith(e, t) ==
  /\ pc \in {"idle", "done"}
  /\ run < MaxRuns
  /\ run' = run + 1
  /\ srcExists' = e
  /\ tree' = t
  /\ emitted' = <<>>
  /\ pc' = "ensureDirectoryExists"
  /\ entryTargets' = <<>>
  /\ idx' = 1
  /\ manifest' = NoEntries
  /\ exitCode' = 0
  /\ inflight' = {}
  /\ buildCalls' = <<>>
  /\ verified' = {}
  /\ manifestWrites' = 0
  /\ discovered' = FALSE
  /\ outDirExists0' = outDirExists
  /\ outDir0' = outDir
  /\ UNCHANGED << fixed, disk >>

StartRun ==
  /\ \E e \in BOOLEAN : \E t \in (IF e THEN Trees ELSE {<<>>}) : StartRunWith(e, t)
  /\ UNCHANGED prevExitCode

\* a variant that resets the output directory before checking the source root
EnsureDirectoryExistsAfterReset ==
  /\ pc = "ensureDirectoryExists"
  /\ outDirExists' = TRUE
  /\ outDir' = EmptyDir
  /\ IF ~srcExists
     THEN Catch
     ELSE pc' = "discoverEntries" /\ UNCHANGED exitCode
  /\ UNCHANGED << inputs, emitted, entryTargets, idx, manifest, inflight, buildCalls,
                  verified, manifestWrites, discovered >>

EnsureDirectoryExists ==
  /\ pc = "ensureDirectoryExists"
  /\ IF ~srcExists
     THEN Catch
     ELSE pc' = "discoverEntries" /\ UNCHANGED exitCode
  /\ UNCHANGED << inputs, emitted, disk, entryTargets, idx, manifest, inflight, buildCalls,
                  verified, manifestWrites, discovered >>

DiscoverEntries ==
  /\ pc = "discoverEntries"
  /\ entryTargets' = discoverEntries(tree)
  /\ discovered' = TRUE
  /\ pc' = "checkTargets"
  /\ UNCHANGED << inputs, emitted, disk, idx, manifest, exitCode, inflight, buildCalls,
                  verified, manifestWrites >>

\* a variant without the early return
CheckTargetsNoEarlyReturn ==
  /\ pc = "checkTargets"
  /\ pc' = "prepareOutput"
  /\ UNCHANGED << inputs, emitted, disk, entryTargets, idx, manifest, exitCode, inflight,
                  buildCalls, verified, manifestWrites, discovered >>

CheckTargets ==
  /\ pc = "checkTargets"
  /\ IF Len(entryTargets) = 0
     THEN pc' = "done"
     ELSE pc' = "prepareOutput"
  /\ UNCHANGED << inputs, emitted, disk, entryTargets, idx, manifest, exitCode, inflight,
                  buildCalls, verified, manifestWrites, discovered >>

\* a variant that only creates the directory
PrepareOutputKeepFiles ==
  /\ pc = "prepareOutput"
  /\ outDirExists' = TRUE
  /\ outDir' = outDir
  /\ pc' = "loadConfig"
  /\ UNCHANGED << inputs, emitted, entryTargets, idx, manifest, exitCode, inflight,
                  buildCalls, verified, manifestWrites, discovered >>

PrepareOutput ==
  /\ pc = "prepareOutput"
  /\ outDirExists' = TRUE
  /\ outDir' = EmptyDir
  /\ pc' = "loadConfig"
  /\ UNCHANGED << inputs, emitted, entryTargets, idx, manifest, exitCode, inflight,
                  buildCalls, verified, manifestWrites, discovered >>

\* await loadConfigFromFile(...): it resolves (ok) or rejects
LoadConfigWith(ok) ==
  /\ pc = "loadConfig"
  /\ IF ok
     THEN pc' = "loop" /\ manifest' = NoEntries /\ idx' = 1 /\ UNCHANGED exitCode
     ELSE Catch /\ UNCHANGED << manifest, idx >>
  /\ UNCHANGED << inputs, emitted, disk, entryTargets, inflight, buildCalls, verified,
                  manifestWrites, discovered >>

LoadConfig == \E ok \in BOOLEAN : LoadConfigWith(ok)

\* the loop does not wait for the build it has started
CallBuildNoAwait ==
  /\ pc = "loop"
  /\ idx <= Len(entryTargets)
  /\ inflight' = inflight \cup {idx}
  /\ buildCalls' = Append(buildCalls, idx)
  /\ idx' = idx + 1
  /\ pc' = "loop"
  /\ UNCHANGED << inputs, emitted, disk, entryTargets, manifest, exitCode, verified,
                  manifestWrites, discovered >>

\* the next target of the for...of loop: build(entryConfig) is called
CallBuild ==
  /\ pc = "loop"
  /\ idx <= Len(entryTargets)
  /\ inflight' = inflight \cup {idx}
  /\ buildCalls' = Append(buildCalls, idx)
  /\ pc' = "await"
  /\ UNCHANGED << inputs, emitted, disk, entryTargets, idx, manifest, exitCode, verified,
                  manifestWrites, discovered >>

\* await build(entryConfig): the bundler has emitted its files into OUT_DIR
\* and the promise resolves or rejects, as the outcome o says
BuildSettlesWith(o) ==
  /\ pc = "await"
  /\ outDir' = writeFiles(outDir,
                  { outputPath(entryTargets[idx].name, k) : k \in o.emits },
                  run, NoEntries)
  /\ IF o.throws
     THEN Catch
     ELSE pc' = "ensureFileExists" /\ UNCHANGED exitCode
  /\ outDirExists' = TRUE
  /\ inflight' = inflight \ {idx}
  /\ emitted' = Append(emitted, o)
  /\ UNCHANGED << inputs, entryTargets, idx, manifest, buildCalls, verified,
                  manifestWrites, discovered >>

BuildSettles == \E o \in BuildOutcomes : BuildSettlesWith(o)

\* a missing JS output is skipped over and the loop goes on
EnsureFileExistsContinue ==
  /\ pc = "ensureFileExists"
  /\ IF widgetJsPath(entryTargets[idx].name) \notin DOMAIN outDir
     THEN pc' = "loop" /\ idx' = idx + 1 /\ UNCHANGED verified
     ELSE pc' = "record" /\ verified' = verified \cup {idx} /\ UNCHANGED idx
  /\ UNCHANGED << inputs, emitted, disk, entryTargets, manifest, exitCode, inflight,
                  buildCalls, manifestWrites, discovered >>

EnsureFileExists ==
  /\ pc = "ensureFileExists"
  /\ IF widgetJsPath(entryTargets[idx].name) \notin DOMAIN outDir
     THEN Catch /\ UNCHANGED verified
     ELSE pc' = "record" /\ verified' = verified \cup {idx} /\ UNCHANGED exitCode
  /\ UNCHANGED << inputs, emitted, disk, entryTargets, idx, manifest, inflight,
                  buildCalls, manifestWrites, discovered >>

setEntry(m, name, entry) ==
  [n \in DOMAIN m \cup {name} |-> IF n = name THEN entry ELSE m[n]]

\* the manifest file is rewritten after every target
RecordEntryAndWrite ==
  /\ pc = "record"
  /\ manifest' = setEntry(manifest, entryTargets[idx].name,
                          manifestEntry(entryTargets[idx], outDir))
  /\ outDir' = writeFiles(outDir, {MANIFEST_PATH}, run, manifest')
  /\ manifestWrites' = manifestWrites + 1
  /\ idx' = idx + 1
  /\ pc' = "loop"
  /\ UNCHANGED << inputs, emitted, outDirExists, entryTargets, exitCode, inflight,
                  buildCalls, verified, discovered >>

\* the existence check looks at the output directory as the run found it
RecordEntryCheckedBeforeReset ==
  /\ pc = "record"
  /\ manifest' = setEntry(manifest, entryTargets[idx].name,
                          manifestEntry(entryTargets[idx], outDir0))
  /\ idx' = idx + 1
  /\ pc' = "loop"
  /\ UNCHANGED << inputs, emitted, disk, entryTargets, exitCode, inflight, buildCalls,
                  verified, manifestWrites, discovered >>

\* manifest[target.name] = {js, css, rootId}, and the loop moves on
RecordEntry ==
  /\ pc = "record"
  /\ manifest' = setEntry(manifest, entryTargets[idx].name,
                          manifestEntry(entryTargets[idx], outDir))
  /\ idx' = idx + 1
  /\ pc' = "loop"
  /\ UNCHANGED << inputs, emitted, disk, entryTargets, exitCode, inflight, buildCalls,
                  verified, manifestWrites, discovered >>

\* fs.writeFileSync(MANIFEST_PATH, JSON.stringify({ entries: manifest }))
WriteManifest ==
  /\ pc = "loop"
  /\ idx > Len(entryTargets)
  /\ outDir' = writeFiles(outDir, {MANIFEST_PATH}, run, manifest)
  /\ manifestWrites' = manifestWrites + 1
  /\ pc' = "done"
  /\ UNCHANGED << inputs, emitted, outDirExists, entryTargets, idx, manifest, exitCode,
                  inflight, buildCalls, verified, discovered >>

Next ==
  \/ StartRun
  \/ EnsureDirectoryExists
  \/ DiscoverEntries
  \/ CheckTargets
  \/ PrepareOutput
  \/ LoadConfig
  \/ CallBuild
  \/ BuildSettles
  \/ EnsureFileExists
  \/ RecordEntry
  \/ WriteManifest

Spec == Init /\ [][Next]_vars

-----------------------------------------------------------------------------
(* Vocabulary of the properties.                                           *)

Positions == 1..Len(entryTargets)

Names == { entryTargets[i].name : i \in Positions }

RunEnded == pc = "done"

ManifestOnDisk == MANIFEST_PATH \in DOMAIN outDir

\* a build of this run threw, or its JS output was found missing
BuildFailed ==
  /\ RunEnded
  /\ \E k \in 1..Len(buildCalls) : buildCalls[k] \notin verified

AllVerified == Len(entryTargets) > 0 /\ verified = Positions

Recorded(i) == entryTargets[i].name \in DOMAIN manifest

FilesOf(name) == { outputPath(name, k) : k \in {"js", "css", "asset"} }

OnlyThisRunsFiles == \A p \in DOMAIN outDir : outDir[p].by = run

DiskUntouched == outDirExists = outDirExists0 /\ outDir = outDir0

hasEntryFile(dirent) == \E k \in 1..Len(ENTRY_FILES) : ENTRY_FILES[k] \in DOMAIN dirent.files

TargetsNamed(n) == { j \in Positions : entryTargets[j].name = n }

-----------------------------------------------------------------------------
\* C1: when a run ends after every target's build and JS-output check
\* succeeded, the manifest this run wrote has exactly one entry per discovered
\* target and no other entry, each with the rootId detected for that target.
C1_ManifestMatchesTargets ==
  (RunEnded /\ AllVerified) =>
    /\ ManifestOnDisk
    /\ outDir[MANIFEST_PATH].by = run
    /\ DOMAIN outDir[MANIFEST_PATH].entries = Names
    /\ Cardinality(Names) = Len(entryTargets)
    /\ \A i \in Positions :
         outDir[MANIFEST_PATH].entries[entryTargets[i].name].rootId
           = detectRootId(entryTargets[i].entrySource, entryTargets[i].name)

C1_Witness ==
  /\ RunEnded /\ AllVerified
  /\ Len(entryTargets) = 3
  /\ outDir[MANIFEST_PATH].entries["a"].rootId = "app"
  /\ outDir[MANIFEST_PATH].entries["b"].rootId = "b-root"

\* C2: when a build of the run threw or its JS output was missing, at the end
\* of the run there is no manifest.json in the output directory, from this run
\* or from an earlier one, and the exit code is non-zero.
C2_NoManifestAfterBuildFailure ==
  BuildFailed => (~ManifestOnDisk /\ exitCode # 0)

C2_Witness ==
  /\ BuildFailed
  /\ MANIFEST_PATH \in DOMAIN outDir0
  /\ Len(buildCalls) >= 2

\* C3: at most one build is in progress, builds are called in discovery
\* order, and the build of a target is called only after the previous target's
\* build has settled, its JS output has been checked and its entry recorded.
C3_SequentialBuilds ==
  /\ Cardinality(inflight) <= 1
  /\ \A k \in 1..Len(buildCalls) : buildCalls[k] = k
  /\ \A k \in 1..Len(buildCalls) : \A j \in 1..(k - 1) :
       /\ buildCalls[j] \notin inflight
       /\ buildCalls[j] \in verified
       /\ Recorded(buildCalls[j])

C3_Witness ==
  /\ Len(buildCalls) = 2
  /\ inflight = {2}
  /\ Recorded(1)

\* C4: build() is called at most once per target; after a build has thrown
\* or its JS output was missing no further build is called, and no output file
\* of a target that was not processed exists.
C4_NoRetryNoContinuation ==
  /\ \A j, k \in 1..Len(buildCalls) : buildCalls[j] = buildCalls[k] => j = k
  /\ \A k \in 1..Len(buildCalls) :
       buildCalls[k] \notin verified => k = Len(buildCalls)
  /\ BuildFailed =>
       \A i \in Positions :
         (\A k \in 1..Len(buildCalls) : buildCalls[k] # i) =>
           FilesOf(entryTargets[i].name) \cap DOMAIN outDir = {}

C4_Witness ==
  /\ BuildFailed
  /\ Len(buildCalls) = 2
  /\ Len(entryTargets) = 3
  /\ widgetJsPath("c") \in DOMAIN outDir0

\* the manifest is written only once every target has been built, checked and
\* recorded, once per run; a successful run with targets has written it
C5_WrittenState ==
  /\ manifestWrites <= 1
  /\ (ManifestOnDisk /\ outDir[MANIFEST_PATH].by = run) => manifestWrites = 1
  /\ manifestWrites = 1 =>
       /\ AllVerified
       /\ inflight = {}
       /\ Len(buildCalls) = Len(entryTargets)
       /\ \A i \in Positions : Recorded(i)
       /\ ManifestOnDisk /\ outDir[MANIFEST_PATH].by = run
  /\ (RunEnded /\ exitCode = 0 /\ Len(entryTargets) > 0) => manifestWrites = 1

C5_AfterWrite ==
  (manifestWrites = 1 /\ run' = run) =>
    (buildCalls' = buildCalls /\ outDir' = outDir /\ manifestWrites' = 1)

\* C5: in every state the manifest has been written at most once, and only
\* after the last target was built, checked and recorded; no step of the same
\* run after the write calls build() or writes into the output directory.
C5_ManifestWrittenOnceAtEnd == [](C5_WrittenState) /\ [][C5_AfterWrite]_vars

C5_Witness ==
  /\ manifestWrites = 1
  /\ Len(entryTargets) = 3
  /\ Cardinality(DOMAIN outDir) >= 5

\* C6: whenever a run ends with a success outcome, the manifest.json on disk,
\* if there is one, was written by that run and describes only the targets
\* that run discovered.
C6_ManifestFreshAfterSuccess ==
  (RunEnded /\ exitCode = 0 /\ ManifestOnDisk) =>
    /\ outDir[MANIFEST_PATH].by = run
    /\ DOMAIN outDir[MANIFEST_PATH].entries \subseteq Names

\* main() has passed prepareOutput() in this run
PastReset ==
  \/ pc \in {"loadConfig", "loop", "await", "ensureFileExists", "record"}
  \/ (RunEnded /\ Len(entryTargets) > 0)

\* C7 as stated: the output directory is reset at the start of every run, so
\* once a run has started building or has ended, no file written by an earlier
\* run is in the output directory.
C7_NoEarlierFileInAnyRun ==
  (buildCalls # <<>> \/ RunEnded) => OnlyThisRunsFiles

\* C7 as amended: the reset is not at the start of the run but after the
\* source-root check and discovery, once a target is found; it precedes every
\* build and every write of the run, and from the reset on, the end of the run
\* included, the output directory holds no file written by an earlier run.
C7_ResetBeforeBuilding ==
  /\ PastReset => (outDirExists /\ OnlyThisRunsFiles)
  /\ (buildCalls # <<>> \/ manifestWrites > 0) => PastReset
  /\ (\E p \in DOMAIN outDir : outDir[p].by = run /\ run > 0) => PastReset
  /\ (pc = "loadConfig") => outDir = EmptyDir

C7_Witness ==
  /\ run = 2
  /\ ManifestOnDisk /\ outDir[MANIFEST_PATH].by = 2
  /\ MANIFEST_PATH \in DOMAIN outDir0
  /\ widgetJsPath("b") \in DOMAIN outDir0
  /\ widgetJsPath("b") \notin DOMAIN outDir

\* C8: when the source root does not exist the run ends in failure without
\* discovery and without a build, and the output directory and any manifest in
\* it are exactly as they were when the run started.
C8_MissingSourceRoot ==
  ~srcExists =>
    /\ ~discovered
    /\ buildCalls = <<>>
    /\ DiskUntouched
    /\ pc \in {"ensureDirectoryExists", "done"}
    /\ RunEnded => exitCode # 0

C8_Witness ==
  /\ ~srcExists
  /\ RunEnded
  /\ MANIFEST_PATH \in DOMAIN outDir0
  /\ widgetCssPath("a") \in DOMAIN outDir

\* the names of the subdirectories that discovery has to turn into targets
Qualifying ==
  { tree[i].name : i \in { j \in 1..Len(tree) :
      tree[j].isDir /\ ~startsWith(tree[j].name, ".") /\ hasEntryFile(tree[j]) } }

\* C9: a subdirectory without an entry file yields no target and does not
\* fail the run, the other subdirectories are still discovered; a run that
\* finds no target calls no build, writes no output and no manifest, and ends
\* with a success outcome.
C9_SkipsAndEmptyRun ==
  discovered =>
    /\ \A i \in 1..Len(tree) :
         (tree[i].isDir /\ ~hasEntryFile(tree[i])) => TargetsNamed(tree[i].name) = {}
    /\ Names = Qualifying
    /\ (RunEnded /\ exitCode # 0) => Len(entryTargets) > 0
    /\ Len(entryTargets) = 0 =>
         /\ pc \in {"checkTargets", "done"}
         /\ buildCalls = <<>>
         /\ manifestWrites = 0
         /\ \A p \in DOMAIN outDir : outDir[p].by # run
         /\ exitCode = 0

C9_Witness ==
  /\ discovered /\ RunEnded
  /\ Len(entryTargets) = 0
  /\ \E i \in 1..Len(tree) : tree[i].isDir /\ tree[i].name = "a"
  /\ exitCode = 0
  /\ ManifestOnDisk

\* a run in which one subdirectory is skipped and the others are built
C9_OthersStillBuilt ==
  /\ RunEnded /\ exitCode = 0
  /\ \E i \in 1..Len(tree) : tree[i].isDir /\ tree[i].name = "a" /\ ~hasEntryFile(tree[i])
  /\ Names = {"b", "c"}
  /\ DOMAIN outDir[MANIFEST_PATH].entries = {"b", "c"}

\* C10 as stated: discovery returns exactly one target per immediate
\* subdirectory that contains a qualifying entry file name, and none for the
\* other subdirectories and for the entries that are not directories.
C10_OneTargetPerSubdirectory ==
  discovered =>
    \A i \in 1..Len(tree) :
      Cardinality(TargetsNamed(tree[i].name))
        = IF tree[i].isDir /\ hasEntryFile(tree[i]) THEN 1 ELSE 0

\* C10 as amended: discovery returns exactly one target, named after it, per
\* immediate subdirectory whose name does not start with a dot and that
\* contains a qualifying entry file name, and none for the hidden
\* subdirectories, for the subdirectories without an entry file and for the
\* entries that are not directories.
C10_OneTargetPerVisibleSubdirectory ==
  discovered =>
    /\ \A i \in 1..Len(tree) :
         Cardinality(TargetsNamed(tree[i].name))
           = IF tree[i].isDir /\ ~startsWith(tree[i].name, ".") /\ hasEntryFile(tree[i])
             THEN 1 ELSE 0
    /\ \A j \in Positions : \E i \in 1..Len(tree) : tree[i].name = entryTargets[j].name

C10_Witness ==
  /\ discovered
  /\ Len(entryTargets) = 2
  /\ \E i \in 1..Len(tree) : tree[i].name = ".h" /\ hasEntryFile(tree[i])
  /\ \E i \in 1..Len(tree) : ~tree[i].isDir
  /\ \E i \in 1..Len(tree) : tree[i].isDir /\ ~hasEntryFile(tree[i])

TutorialEntryFields == { "js", "css", "rootId", "hash" }

\* C16: every entry of a manifest the run has written carries js, css,
\* rootId and hash, and its js path is widgets/<widget>-<hash>.js, so that
\* the server's lookups all succeed
C16_EntriesCarryTutorialFields ==
  (RunEnded /\ ManifestOnDisk /\ outDir[MANIFEST_PATH].by = run)
    => \A n \in DOMAIN outDir[MANIFEST_PATH].entries :
         LET entry == outDir[MANIFEST_PATH].entries[n]
         IN  /\ TutorialEntryFields \subseteq DOMAIN entry
             /\ entry.js = "widgets/" \o n \o "-" \o entry.hash \o ".js"

-----------------------------------------------------------------------------
\* The script run again and again against unchanged inputs: the source tree,
\* the platform and what the bundler does for each target and for the
\* configuration file are chosen once, as is the output directory that the
\* first run finds.

targetNames(t) ==
  LET es == discoverEntries(t) IN { es[i].name : i \in DOMAIN es }

\* the deterministic bundlers for the tree t
Bundlers(t) ==
  [ config : BOOLEAN, build : [targetNames(t) -> BuildOutcomes] ]

\* an output directory as an earlier build of other sources left it
StaleOutDir ==
  writeFiles(
    writeFiles(EmptyDir, { widgetJsPath("old"), widgetCssPath("a") }, 0, NoEntries),
    { MANIFEST_PATH }, 0,
    setEntry(NoEntries, "old",
             [js |-> "widgets/old.js", css |-> Null, rootId |-> "old-root"]))

InitTwice ==
  /\ sep \in Platforms
  /\ srcExists \in BOOLEAN
  /\ tree \in (IF srcExists THEN Trees ELSE {<<>>})
  /\ bundler \in Bundlers(tree)
  /\ MainIdle
  /\ \/ NoOutDir
     \/ outDirExists = TRUE /\ outDir = EmptyDir
     \/ outDirExists = TRUE /\ outDir = StaleOutDir
  /\ NoUnit

\* the next run, with the exit code of the run before it kept
StartRunSame ==
  /\ StartRunWith(srcExists, tree)
  /\ prevExitCode' = exitCode

LoadConfigSame == LoadConfigWith(bundler.config)

BuildSettlesSame ==
  /\ pc = "await"
  /\ BuildSettlesWith(bundler.build[entryTargets[idx].name])

NextTwice ==
  \/ StartRunSame
  \/ EnsureDirectoryExists
  \/ DiscoverEntries
  \/ CheckTargets
  \/ PrepareOutput
  \/ LoadConfigSame
  \/ CallBuild
  \/ BuildSettlesSame
  \/ EnsureFileExists
  \/ RecordEntry
  \/ WriteManifest

SpecTwice == InitTwice /\ [][NextTwice]_vars

\* C17: when a run that is not the first ends, its exit code is that of the
\* run before it, the output directory holds the same file names as after
\* the run before it, and the manifest, where there is one, has the same
\* content, whatever the output directory held before the first run
C17_SecondRunSameAsFirst ==
  (run >= 2 /\ RunEnded)
    => /\ exitCode = prevExitCode
       /\ outDirExists = outDirExists0
       /\ DOMAIN outDir = DOMAIN outDir0
       /\ ManifestOnDisk
            => outDir[MANIFEST_PATH].entries = outDir0[MANIFEST_PATH].entries

\* the second successful run over two targets has rewritten a manifest that
\* the first run wrote in place of the stale one
C17_Witness ==
  /\ run = 2 /\ RunEnded /\ exitCode = 0
  /\ Len(entryTargets) >= 2
  /\ ManifestOnDisk /\ outDir[MANIFEST_PATH].by = 2
  /\ outDir0[MANIFEST_PATH].by = 1
  /\ widgetJsPath("old") \notin DOMAIN outDir
  /\ \E n \in DOMAIN manifest : manifest[n].css # Null

\* the second run has failed at the same build as the first
C17_WitnessFailure ==
  /\ run = 2 /\ RunEnded /\ exitCode = 1 /\ prevExitCode = 1
  /\ Len(emitted) = 2
  /\ DOMAIN outDir # {}

-----------------------------------------------------------------------------
\* Helper functions called on their own.  The variables of main() stay as
\* they are before the first run.

mainVars ==
  << run, srcExists, tree, outDirExists, outDir, pc, entryTargets, idx,
     manifest, exitCode, inflight, buildCalls, verified, manifestWrites,
     discovered, outDirExists0, outDir0, emitted, prevExitCode >>

InitUnit ==
  /\ sep \in Platforms
  /\ srcExists = TRUE
  /\ tree = <<>>
  /\ MainIdle
  /\ NoOutDir
  /\ bundler = NoBundler
  /\ result = <<>>
  /\ returned = FALSE

-----------------------------------------------------------------------------
\* resolveEntryFile(dir) on a directory holding any of these files

DirFileNames ==
  { ENTRY_FILES[i] : i \in DOMAIN ENTRY_FILES } \cup { "index.css", "app.tsx" }

InitResolve ==
  /\ InitUnit
  /\ \E fs \in SUBSET DirFileNames : args = << Dir("w", [f \in fs |-> SrcPlain]) >>

CallResolveEntryFile ==
  /\ ~returned
  /\ result' = resolveEntryFile(args[1])
  /\ returned' = TRUE
  /\ UNCHANGED << mainVars, sep, bundler, args >>

NextResolve == CallResolveEntryFile

SpecResolve == InitResolve /\ [][NextResolve]_vars

Has(file) == file \in DOMAIN args[1].files

TypedMarkup == { "index.tsx", "main.tsx" }

Untyped == { "index.js", "main.js" }

IndexFiles == { "index.tsx", "index.jsx", "index.ts", "index.js" }

HasTypedMarkupAndUntyped ==
  (\E f \in TypedMarkup : Has(f)) /\ (\E f \in Untyped : Has(f))

\* C11 as stated: a directory with a typed-markup and an untyped entry file
\* resolves to a typed-markup file, whatever the basenames are
C11_TypedMarkupAlwaysWins ==
  (returned /\ HasTypedMarkupAndUntyped)
    => (result \in TypedMarkup /\ Has(result))

\* C11: in a directory with a typed-markup and an untyped entry file,
\* index.tsx is returned when it exists; main.tsx is returned only when the
\* directory holds no index.* candidate, and otherwise the first existing
\* index.* candidate is returned although it is not typed markup
C11_TypedMarkupWinsWithinBasename ==
  (returned /\ HasTypedMarkupAndUntyped)
    => /\ Has("index.tsx") => result = "index.tsx"
       /\ (\A f \in IndexFiles : ~Has(f)) => result = "main.tsx"
       /\ (~Has("index.tsx") /\ \E f \in IndexFiles : Has(f))
            => (result \in IndexFiles \ {"index.tsx"} /\ Has(result))

C11_Witness ==
  /\ returned
  /\ Has("main.tsx") /\ Has("index.js") /\ ~Has("index.tsx")
  /\ result = "index.js"

Basenames == << "index", "main" >>

\* the extensions in the order of line 17, and in the order typed first
ExtensionsInCode == << "tsx", "jsx", "ts", "js" >>

ExtensionsTypedFirst == << "tsx", "ts", "jsx", "js" >>

Candidates == { <<b, e>> : b \in 1..2, e \in 1..4 }

candidateName(c, exts) == Basenames[c[1]] \o "." \o exts[c[2]]

Before(c, d) == c[1] < d[1] \/ (c[1] = d[1] /\ c[2] <= d[2])

\* result is the one existing candidate that no other existing candidate
\* precedes, the basenames tried in order and the extensions in order exts
FirstExisting(exts) ==
  LET present == { c \in Candidates : Has(candidateName(c, exts)) }
  IN  IF present = {} THEN result = ""
      ELSE /\ \E c \in present :
                /\ result = candidateName(c, exts)
                /\ \A d \in present : Before(c, d)
           /\ Cardinality({ c \in present : result = candidateName(c, exts) }) = 1

-----------------------------------------------------------------------------
\* selectCss(target) for a target of a source tree with style sheets

SrcImportsX == "import './x.css'\nexport default 1"

SrcImportsThemeAndSub == "import \"./.theme.css\";\r\nimport  './sub/y.scss'"

SrcImportsGlobals == "import '../index.css'\nimport\t'../styles/index.css'"

SrcImportsOther == "import s from './x.css'; import './xxcss'"

SrcImportsOwnIndex == "import './index.css'"

CssEntrySources ==
  { SrcPlain, SrcImportsX, SrcImportsThemeAndSub, SrcImportsGlobals,
    SrcImportsOther }

KidsX == { <<>>, << FileNode("x.css", "") >> }

KidsTheme == { <<>>, << FileNode(".theme.css", "") >> }

KidsSub ==
  { <<>>,
    << DirNode("sub", << FileNode("y.scss", ""), FileNode("m.Module.css", "") >>) >>,
    << DirNode("node_modules", << FileNode("n.css", "") >>),
       DirNode("sub", << DirNode("deep", << FileNode("d.CSS", "") >>),
                         FileNode("y.scss", "") >>) >> }

\* the directory a: an entry file and what else it may hold
DirsA ==
  { << DirNode("a", x \o << FileNode("index.tsx", src) >> \o sub \o th) >> :
      src \in CssEntrySources, x \in KidsX, sub \in KidsSub, th \in KidsTheme }

\* the directory styles: absent, a plain directory, or a target
DirsStyles ==
  { <<>>,
    << DirNode("styles", << FileNode("index.css", "") >>) >>,
    << DirNode("styles", << FileNode("extra.css", ""),
                            FileNode("index.css", ""),
                            FileNode("main.ts", SrcPlain) >>) >>,
    << DirNode("styles", << FileNode("index.tsx", SrcImportsOwnIndex),
                            FileNode("index.css", ""),
                            FileNode("extra.css", "") >>) >> }

RootIndexCss == { <<>>, << FileNode("index.css", "") >> }

RootGlobalCss == { <<>>, << FileNode("global.css", "") >> }

CssTrees ==
  { DirNode(SRC_ROOT, g2 \o a \o st \o g1) :
      g1 \in RootIndexCss, g2 \in RootGlobalCss, a \in DirsA, st \in DirsStyles }

\* a node of the source root as discoverEntries sees it
asDirent(node) ==
  LET files == { i \in DOMAIN node.kids : ~node.kids[i].isDir }
  IN  [ name  |-> node.name,
        isDir |-> node.isDir,
        files |-> [ f \in { node.kids[i].name : i \in files } |->
                      node.kids[CHOOSE i \in files : node.kids[i].name = f].text ] ]

\* discoverEntries() on the file system fs
targetsOf(fs) == discoverEntries([i \in DOMAIN fs.kids |-> asDirent(fs.kids[i])])

InitCss ==
  /\ InitUnit
  /\ \E fs \in CssTrees :
       \E i \in DOMAIN targetsOf(fs) : args = << fs, targetsOf(fs)[i] >>

\* const cssToInclude = selectCss(target)
CallSelectCss ==
  /\ ~returned
  /\ result' = [ css         |-> selectCss(args[1], args[2]),
                 globalCss   |-> globalCssOf(args[1]),
                 perEntryCss |-> perEntryCssOf(args[1], args[2]),
                 asked |-> FALSE, id |-> "", resolved |-> Null, loaded |-> Null ]
  /\ returned' = TRUE
  /\ UNCHANGED << mainVars, sep, bundler, args >>

\* the ids the bundler may ask the plugin of the target about: the virtual
\* ids of all the targets, the real entry file, a style sheet, a package
BundlerIds ==
  LET ts == targetsOf(args[1])
  IN  { virtualIdOf(ts[i]) : i \in DOMAIN ts }
        \cup { args[2].entryFile, pathJoin(SRC_ROOT, "index.css"), "react" }

\* wrapEntryPlugin(virtualId, target.entryFile, cssToInclude), and the
\* bundler calls the plugin's resolveId(id) and load(id)
CallPluginHooks ==
  /\ returned
  /\ ~result.asked
  /\ \E id \in BundlerIds :
       result' = [ css         |-> result.css,
                   globalCss   |-> result.globalCss,
                   perEntryCss |-> result.perEntryCss,
                   asked    |-> TRUE,
                   id       |-> id,
                   resolved |-> resolveId(virtualIdOf(args[2]), id),
                   loaded   |-> load(virtualIdOf(args[2]), args[2].entryFile,
                                     result.css, id) ]
  /\ UNCHANGED << mainVars, sep, bundler, args, returned >>

NextCss == CallSelectCss \/ CallPluginHooks

SpecCss == InitCss /\ [][NextCss]_vars

\* every style sheet selectCss considers for the target, before the filter
cssCandidates ==
  LET all == result.globalCss \o result.perEntryCss
  IN  { all[i] : i \in DOMAIN all }

selected == { result.css[i] : i \in DOMAIN result.css }

\* the path of a style sheet relative to the entry directory, with forward
\* slashes, prefixed with ./ unless it begins with ./ or ../
relativeImportPath(cssPath) ==
  LET r == toPosixPath(pathRelative(pathDirname(args[2].entryFile), cssPath))
  IN  IF startsWith(r, "./") \/ startsWith(r, "../") THEN r ELSE "./" \o r

\* the text has: import, white space, a quote, the path rel, a quote
importsPath(text, rel) ==
  \E i \in 1..Len(text) : \E j \in (i + 7)..Len(text) :
    /\ SubSeq(text, i, i + 5) = "import"
    /\ \A k \in (i + 6)..(j - 1) : isSpace(charAt(text, k))
    /\ isQuote(charAt(text, j))
    /\ j + Len(rel) + 1 <= Len(text)
    /\ SubSeq(text, j + 1, j + Len(rel)) = rel
    /\ isQuote(charAt(text, j + Len(rel) + 1))

basename(p) == SubSeq(p, lastIndexOf(p, sep, Len(p)) + 1, Len(p))

\* C13: selectCss returns no style sheet whose relative path, prefixed with
\* ./ unless it begins with ./ or ../, the entry source imports; this
\* includes style sheets whose file name begins with a dot
C13_NoImportedStylesheetReturned ==
  returned
    => \A cssPath \in cssCandidates :
         importsPath(args[2].entrySource, relativeImportPath(cssPath))
           => cssPath \notin selected

\* C13 without the dot-named files: an imported style sheet whose file name
\* does not begin with a dot is never returned
C13_HoldsForOtherNames ==
  returned
    => \A cssPath \in cssCandidates :
         (/\ importsPath(args[2].entrySource, relativeImportPath(cssPath))
          /\ ~startsWith(basename(cssPath), "."))
           => cssPath \notin selected

\* an imported style sheet has been filtered out
C13_FilterActs ==
  /\ returned
  /\ \E cssPath \in cssCandidates :
       /\ importsPath(args[2].entrySource, relativeImportPath(cssPath))
       /\ cssPath \notin selected

-----------------------------------------------------------------------------
\* detectRootId(entrySource, fallbackName) on entry sources put together
\* from statements; a statement is its text and the quoted string argument
\* of the getElementById call it makes, "" when it makes no such call

Statement(t, a) == [text |-> t, argument |-> a]

Statements ==
  { Statement("import { createRoot } from 'react-dom/client'", ""),
    Statement("createRoot(document.getElementById('hello-world-root')!).render(\n)",
              "hello-world-root"),
    Statement("const el = document.getElementById ( \"app\" )", "app"),
    Statement("mount(getElementById(\n\t'r2'\r\n))", "r2"),
    Statement("const el = document.getElementById(id)", ""),
    Statement("document.getElementById('')", ""),
    Statement("document.getElementById('a', 1)", ""),
    Statement("document.querySelector('#q')", "") }

MaxStatements == 3

FallbackNames == { "a", "hello-world" }

\* the statements joined into one source text
RECURSIVE sourceOf(_)
sourceOf(stmts) ==
  IF Len(stmts) = 0 THEN ""
  ELSE stmts[1].text \o ";\n" \o sourceOf(SubSeq(stmts, 2, Len(stmts)))

InitRootId ==
  /\ InitUnit
  /\ \E n \in 0..MaxStatements : \E stmts \in [1..n -> Statements] :
       \E fallbackName \in FallbackNames :
         args = << stmts, sourceOf(stmts), fallbackName >>

\* rootId: detectRootId(entrySource, dirent.name)
CallDetectRootId ==
  /\ ~returned
  /\ result' = detectRootId(args[2], args[3])
  /\ returned' = TRUE
  /\ UNCHANGED << mainVars, sep, bundler, args >>

NextRootId == CallDetectRootId

SpecRootId == InitRootId /\ [][NextRootId]_vars

\* the positions of the statements that call getElementById with a quoted
\* string argument
LookupCalls == { i \in DOMAIN args[1] : args[1][i].argument # "" }

\* C14: detectRootId returns the quoted string argument of the first
\* getElementById call of the source, as written, when there is one, and
\* "<name>-root" for the fallback name otherwise; it never returns ""
C14_FirstLookupArgumentOrFallback ==
  returned
    => /\ LookupCalls # {}
            => \E i \in LookupCalls :
                 /\ \A j \in LookupCalls : i <= j
                 /\ result = args[1][i].argument
       /\ LookupCalls = {} => result = args[3] \o "-root"
       /\ result # ""

\* two different calls follow an empty-argument call: the first of the two
\* is returned
C14_Witness ==
  /\ returned
  /\ Len(args[1]) = 3
  /\ args[1][1].text = "document.getElementById('')"
  /\ args[1][2].argument = "app"
  /\ args[1][3].argument = "r2"
  /\ result = "app"

\* no call, and the fallback is returned
C14_WitnessFallback ==
  /\ returned
  /\ LookupCalls = {} /\ Len(args[1]) > 0
  /\ result = "hello-world-root"

\* the global candidates under the source root, in their fixed order
GlobalPaths ==
  << SRC_ROOT \o sep \o "index.css",
     SRC_ROOT \o sep \o "global.css",
     SRC_ROOT \o sep \o "styles" \o sep \o "index.css" >>

scanned == result.perEntryCss

\* where a style sheet stands: a global one by its place among the
\* candidates, any other behind them by its first place in the scan
placeOf(cssPath) ==
  LET g == { k \in DOMAIN GlobalPaths : GlobalPaths[k] = cssPath }
      c == { k \in DOMAIN scanned : scanned[k] = cssPath }
  IN  IF g # {} THEN CHOOSE k \in g : TRUE
      ELSE Len(GlobalPaths) + (CHOOSE k \in c : \A m \in c : k <= m)

\* C18: the result of selectCss holds no path twice, holds only existing
\* global style sheets and style sheets of the scan, and is ordered: the
\* global ones in candidate order first, then the others in scan order; a
\* path that is both global and scanned stands where the global one stands
C18_NoDuplicatesGlobalsFirst ==
  returned
    => /\ \A i, j \in DOMAIN result.css : result.css[i] = result.css[j] => i = j
       /\ selected \subseteq cssCandidates
       /\ \A p \in selected :
            (\E k \in DOMAIN GlobalPaths : GlobalPaths[k] = p)
              => existsSync(args[1], p)
       /\ \A i, j \in DOMAIN result.css :
            i < j => placeOf(result.css[i]) < placeOf(result.css[j])

\* the target is the directory styles: its index.css is a global candidate
\* and a scanned file, and it is returned once, between global.css and the
\* scanned file that the scan found before it
C18_Witness ==
  /\ returned
  /\ args[2].name = "styles"
  /\ Len(scanned) = 2 /\ scanned[2] = GlobalPaths[3]
  /\ Len(result.css) = 4
  /\ result.css[1] = GlobalPaths[1]
  /\ result.css[2] = GlobalPaths[2]
  /\ result.css[3] = GlobalPaths[3]
  /\ result.css[4] = scanned[1]

\* the positions of the line feeds of a text
lineFeeds(text) == { i \in 1..Len(text) : charAt(text, i) = "\n" }

\* the k-th line feed of a text; 0 and Len(text) + 1 bound the text
lineFeed(text, k) ==
  IF k = 0 THEN 0
  ELSE IF k > Cardinality(lineFeeds(text)) THEN Len(text) + 1
  ELSE CHOOSE i \in lineFeeds(text) :
         Cardinality({ j \in lineFeeds(text) : j < i }) = k - 1

\* the lines of a text
linesOf(text) ==
  [ k \in 1..(Cardinality(lineFeeds(text)) + 1) |->
      SubSeq(text, lineFeed(text, k - 1) + 1, lineFeed(text, k) - 1) ]

\* the characters between the quotes of a JSON string literal, unescaped
RECURSIVE jsonUnescape(_)
jsonUnescape(chars) ==
  IF Len(chars) = 0 THEN ""
  ELSE IF charAt(chars, 1) = "\\" /\ Len(chars) >= 2
       THEN charAt(chars, 2) \o jsonUnescape(SubSeq(chars, 3, Len(chars)))
  ELSE charAt(chars, 1) \o jsonUnescape(SubSeq(chars, 2, Len(chars)))

\* the line is: keyword, a JSON string literal that denotes path, semicolon
isStatementOn(line, keyword, path) ==
  LET from == Len(keyword) + 1
  IN  /\ startsWith(line, keyword)
      /\ Len(line) >= from + 2
      /\ charAt(line, from) = "\""
      /\ SubSeq(line, Len(line) - 1, Len(line)) = "\";"
      /\ jsonUnescape(SubSeq(line, from + 1, Len(line) - 2)) = path

\* C19: the plugin of a target resolves and loads its own virtual id only,
\* and answers null for every other id; the body it loads is one import
\* line per selected style sheet in the order of selectCss, an empty line
\* when there is any, then the re-export of the entry file and the import
\* of the entry file, and nothing else
C19_OwnVirtualIdOnly ==
  (returned /\ result.asked)
    => IF result.id = VirtualPrefix \o args[2].entryFile
       THEN /\ result.resolved = result.id
            /\ LET n     == Len(result.css)
                    lines == linesOf(result.loaded)
                    m     == Len(lines)
               IN  /\ m = (IF n = 0 THEN 2 ELSE n + 3)
                   /\ \A i \in 1..n : isStatementOn(lines[i], "import ", result.css[i])
                   /\ n > 0 => lines[n + 1] = ""
                   /\ isStatementOn(lines[m - 1], "export * from ", args[2].entryFile)
                   /\ isStatementOn(lines[m], "import ", args[2].entryFile)
       ELSE result.resolved = Null /\ result.loaded = Null

\* the plugin of target a has been asked for the virtual id of the target
\* styles and has answered null
C19_Witness ==
  /\ returned /\ result.asked
  /\ args[2].name = "a"
  /\ result.id = VirtualPrefix \o SRC_ROOT \o sep \o "styles" \o sep \o "index.tsx"
  /\ result.loaded = Null

\* the plugin has loaded a body with three style sheet imports
C19_WitnessBody ==
  /\ returned /\ result.asked
  /\ result.loaded # Null
  /\ Len(result.css) = 3

\* the plugin has loaded a body for an empty CSS set
C19_WitnessNoCss ==
  /\ returned /\ result.asked
  /\ result.loaded # Null
  /\ Len(result.css) = 0

\* the targets of the source tree other than the one selectCss was called for
otherTargets ==
  LET ts == targetsOf(args[1])
  IN  { ts[i] : i \in { k \in DOMAIN ts : ts[k].name # args[2].name } }

\* the path lies in the directory subtree of the target
inside(cssPath, target) == startsWith(cssPath, pathDirname(target.entryFile) \o sep)

\* C20: the CSS set selected for a target holds no style sheet that lies in
\* the directory subtree of another target of the same source tree
C20_NoStylesheetOfAnotherTarget ==
  returned
    => \A other \in otherTargets : \A cssPath \in selected : ~inside(cssPath, other)

\* C20 but for the global candidate styles/index.css: a selected style sheet
\* that lies in another target's directory is that candidate, and the other
\* target is the directory styles
C20_OnlyTheStylesCandidateCrosses ==
  returned
    => \A other \in otherTargets : \A cssPath \in selected :
         inside(cssPath, other)
           => (cssPath = GlobalPaths[3] /\ other.name = "styles")

\* two targets, each with style sheets of its own, and the one selected for
\* holds none of the other's
C20_TwoTargetsApart ==
  /\ returned
  /\ args[2].name = "styles"
  /\ \E other \in otherTargets :
       /\ perEntryCssOf(args[1], other) # <<>>
       /\ \A cssPath \in selected : ~inside(cssPath, other)
  /\ \E cssPath \in selected : inside(cssPath, args[2])

=============================================================================
